---- MODULE Spec2Model ----
(***************************************************************************)
(* Model of the codec2_flutter plugin's two native translation units:      *)
(*                                                                         *)
(*   android/src/main/cpp/codec2_flutter.c  the symbol-keeping shim        *)
(*   ios/Classes/codec2_amalgam.c           the unity build of Codec2      *)
(*                                                                         *)
(* The Android part models what the shim's only function contributes to    *)
(* the link of libcodec2_flutter.so: the linker resolves the references    *)
(* that start at _codec2_flutter_keep_symbols, whose body names exactly    *)
(* one Codec2 symbol.  The upstream library is not part of the plugin's    *)
(* sources, so the references between Codec2's own functions are an input  *)
(* of the model: every reference graph over the Codec2 symbols is tried.   *)
(*                                                                         *)
(* The iOS part models the preprocessor's pass over codec2_amalgam.c, line *)
(* by line: comments and blank lines are skipped, #define enters a macro,  *)
(* #include pulls a file into the translation unit.  The macros given on   *)
(* the compiler's command line (-DNAME=VALUE) are an input of the model.   *)
(***************************************************************************)
EXTENDS Integers, Sequences, FiniteSets

VARIABLES
    platform,   \* which of the two builds this behaviour is: "android" | "ios"
    refs,       \* android: references between the upstream Codec2 symbols
    linkpc,     \* android: "idle" | "resolving" | "done"
    worklist,   \* android: symbols referenced and not yet resolved
    forced,     \* android: symbols the link retains because of the shim
    ret,        \* android: what _codec2_flutter_keep_symbols() returned
    line,       \* ios: the next line of codec2_amalgam.c to preprocess
    macros,     \* ios: each macro's value, or "undef"
    diag,       \* ios: macros redefined with another value (a diagnostic each)
    included,   \* ios: the files included so far, in order
    defcount    \* ios: definitions seen so far of each tracked symbol

vars == <<platform, refs, linkpc, worklist, forced, ret,
          line, macros, diag, included, defcount>>

androidVars == <<refs, linkpc, worklist, forced, ret>>
iosVars     == <<line, macros, diag, included, defcount>>

(***************************************************************************)
(* android/src/main/cpp/codec2_flutter.c                                   *)
(***************************************************************************)

\* The shim's one function.
KeepSym == "_codec2_flutter_keep_symbols"

\* Functions that codec2.h declares.  Only codec2_create is named in the
\* shim; the other three stand for the rest of the header's API.
CodecSyms == {"codec2_create", "codec2_destroy", "codec2_encode", "codec2_decode"}

\* The symbols the body of _codec2_flutter_keep_symbols references:
\*     return (void *)codec2_create;
KeepRefs == {"codec2_create"}

\* The value the function returns: the address of codec2_create.
KeepReturn == "codec2_create"

\* The possible references from one upstream function to another.
Edges == {e \in CodecSyms \X CodecSyms : e[1] # e[2]}

\* What symbol s references: the shim's function by its body, an upstream
\* function by the reference graph.
RefsOf(s) == IF s = KeepSym THEN KeepRefs ELSE {e[2] : e \in {d \in refs : d[1] = s}}

\* The link starts from the shim's function.
LinkStart ==
    /\ platform = "android"
    /\ linkpc = "idle"
    /\ linkpc' = "resolving"
    /\ worklist' = {KeepSym}
    /\ UNCHANGED <<platform, refs, forced, ret>>
    /\ UNCHANGED iosVars

\* One referenced symbol is resolved: it is retained, and what it references
\* and is not yet retained is queued.
LinkResolve ==
    /\ platform = "android"
    /\ linkpc = "resolving"
    /\ \E s \in worklist :
          /\ forced' = forced \cup {s}
          /\ worklist' = (worklist \cup RefsOf(s)) \ (forced \cup {s})
    /\ UNCHANGED <<platform, refs, linkpc, ret>>
    /\ UNCHANGED iosVars

\* Nothing is left to resolve.
LinkDone ==
    /\ platform = "android"
    /\ linkpc = "resolving"
    /\ worklist = {}
    /\ linkpc' = "done"
    /\ UNCHANGED <<platform, refs, worklist, forced, ret>>
    /\ UNCHANGED iosVars

\* A caller of the loaded library calls _codec2_flutter_keep_symbols().
KeepSymbolsCall ==
    /\ platform = "android"
    /\ linkpc = "done"
    /\ ret = "none"
    /\ ret' = KeepReturn
    /\ UNCHANGED <<platform, refs, linkpc, worklist, forced>>
    /\ UNCHANGED iosVars

(***************************************************************************)
(* ios/Classes/codec2_amalgam.c                                            *)
(***************************************************************************)

\* The directory every #include of the file names.
UpstreamDir == "../../src/codec2/src/"

\* File names, character by character, so that a name can be matched
\* against a pattern such as codebook*.c.
N_codec2     == <<"c","o","d","e","c","2",".","c">>
N_lpc        == <<"l","p","c",".","c">>
N_lsp        == <<"l","s","p",".","c">>
N_quantise   == <<"q","u","a","n","t","i","s","e",".","c">>
N_phase      == <<"p","h","a","s","e",".","c">>
N_postfilter == <<"p","o","s","t","f","i","l","t","e","r",".","c">>
N_sine       == <<"s","i","n","e",".","c">>
N_interp     == <<"i","n","t","e","r","p",".","c">>
N_nlp        == <<"n","l","p",".","c">>
N_pack       == <<"p","a","c","k",".","c">>
N_dump       == <<"d","u","m","p",".","c">>
N_mbest      == <<"m","b","e","s","t",".","c">>
N_newamp1    == <<"n","e","w","a","m","p","1",".","c">>
N_codec2_fft == <<"c","o","d","e","c","2","_","f","f","t",".","c">>
N_kiss_fft   == <<"k","i","s","s","_","f","f","t",".","c">>
N_kiss_fftr  == <<"k","i","s","s","_","f","f","t","r",".","c">>
N_codebook   == <<"c","o","d","e","b","o","o","k",".","c">>
N_codebookd  == <<"c","o","d","e","b","o","o","k","d",".","c">>

Comment        == [kind |-> "comment"]
Blank          == [kind |-> "blank"]
Define(n, v)   == [kind |-> "define", name |-> n, value |-> v]
Include(d, n)  == [kind |-> "include", dir |-> d, name |-> n]

\* codec2_amalgam.c, line by line.
AmalgamLines ==
    << Comment,                              \*  1
       Comment,                              \*  2
       Comment,                              \*  3
       Comment,                              \*  4
       Comment,                              \*  5
       Comment,                              \*  6
       Comment,                              \*  7
       Blank,                                \*  8
       Define("DUMP", "0"),                    \*  9
       Define("CORTEX_M4", "0"),               \* 10
       Blank,                                \* 11
       Include(UpstreamDir, N_codec2),       \* 12
       Include(UpstreamDir, N_lpc),          \* 13
       Include(UpstreamDir, N_lsp),          \* 14
       Include(UpstreamDir, N_quantise),     \* 15
       Include(UpstreamDir, N_phase),        \* 16
       Include(UpstreamDir, N_postfilter),   \* 17
       Include(UpstreamDir, N_sine),         \* 18
       Include(UpstreamDir, N_interp),       \* 19
       Include(UpstreamDir, N_nlp),          \* 20
       Include(UpstreamDir, N_pack),         \* 21
       Include(UpstreamDir, N_dump),         \* 22
       Include(UpstreamDir, N_mbest),        \* 23
       Include(UpstreamDir, N_newamp1),      \* 24
       Blank,                                \* 25
       Comment,                              \* 26
       Comment,                              \* 27
       Comment,                              \* 28
       Blank,                                \* 29
       Comment,                              \* 30
       Comment,                              \* 31
       Comment >>                            \* 32

\* A mutant of LineAt: the unity build also pulls in kiss_fft.c.
LineAtWithKissFft(i) == IF i = 25 THEN Include(UpstreamDir, N_kiss_fft) ELSE AmalgamLines[i]

\* Line i of the file.
LineAt(i) == AmalgamLines[i]

\* The macros the file defines, and the values a command line may have
\* given them before the file's first line is read.
MacroNames == {"DUMP", "CORTEX_M4"}
MacroValues == {"0", "1"}

\* The three FFT sources the file's comment keeps in translation units of
\* their own: each brings in _kiss_fft_guts.h, which has no include guard.
FftSources == {N_codec2_fft, N_kiss_fft, N_kiss_fftr}

\* A codebook*.c file name.
IsCodebookSource(n) ==
    /\ Len(n) >= Len(N_codebook)
    /\ SubSeq(n, 1, 8) = SubSeq(N_codebook, 1, 8)
    /\ SubSeq(n, Len(n) - 1, Len(n)) = <<".", "c">>

\* The symbols the file's comments say must not be defined twice.
TrackedSyms == {"kiss_fft_state", "codes0", "codes1"}

\* The tracked symbols that including the file named n defines, as the
\* comments of codec2_amalgam.c describe them.
Defines(n) ==
    IF n \in FftSources THEN {"kiss_fft_state"}
    ELSE IF IsCodebookSource(n) THEN {"codes0", "codes1"}
    ELSE {}

AtLine(k) ==
    /\ platform = "ios"
    /\ line <= Len(AmalgamLines)
    /\ LineAt(line).kind = k

\* A comment or an empty line: nothing enters the translation unit.
PpSkip ==
    /\ \/ AtLine("comment")
       \/ AtLine("blank")
    /\ line' = line + 1
    /\ UNCHANGED <<platform, macros, diag, included, defcount>>
    /\ UNCHANGED androidVars

\* #define NAME VALUE: the macro takes the value; defining a macro that
\* already has another value is diagnosed.
PpDefine ==
    /\ AtLine("define")
    /\ macros' = [macros EXCEPT ![LineAt(line).name] = LineAt(line).value]
    /\ diag' = IF macros[LineAt(line).name] \in {"undef", LineAt(line).value}
               THEN diag
               ELSE diag \cup {LineAt(line).name}
    /\ line' = line + 1
    /\ UNCHANGED <<platform, included, defcount>>
    /\ UNCHANGED androidVars

\* #include "DIR/NAME": the file's text, with what it defines, enters the
\* translation unit.
PpInclude ==
    /\ AtLine("include")
    /\ included' = Append(included, [dir |-> LineAt(line).dir, name |-> LineAt(line).name])
    /\ defcount' = [s \in TrackedSyms |->
                       IF s \in Defines(LineAt(line).name) THEN defcount[s] + 1
                       ELSE defcount[s]]
    /\ line' = line + 1
    /\ UNCHANGED <<platform, macros, diag>>
    /\ UNCHANGED androidVars

(***************************************************************************)
(* The two builds                                                          *)
(***************************************************************************)

Init ==
    /\ platform \in {"android", "ios"}
    /\ refs \in SUBSET Edges
    /\ (platform = "ios" => refs = {})
    /\ linkpc = "idle"
    /\ worklist = {}
    /\ forced = {}
    /\ ret = "none"
    /\ line = 1
    /\ macros \in [MacroNames -> MacroValues \cup {"undef"}]
    /\ (platform = "android" => macros = [m \in MacroNames |-> "undef"])
    /\ diag = {}
    /\ included = <<>>
    /\ defcount = [s \in TrackedSyms |-> 0]

Next ==
    \/ LinkStart
    \/ LinkResolve
    \/ LinkDone
    \/ KeepSymbolsCall
    \/ PpSkip
    \/ PpDefine
    \/ PpInclude

Spec == Init /\ [][Next]_vars

(***************************************************************************)
(* Claims                                                                  *)
(***************************************************************************)

\* C1: once the link is done, every codec2_* function that codec2.h declares
\* is retained because of _codec2_flutter_keep_symbols, not only the one the
\* function's body references.
C1_EveryCodecSymbolForced ==
    linkpc = "done" => CodecSyms \subseteq forced

\* C8: at every point of the preprocessing of codec2_amalgam.c no file has
\* been included twice, no included file is codec2_fft.c, kiss_fft.c,
\* kiss_fftr.c or a codebook*.c file, kiss_fft_state and the codesN arrays
\* are each defined at most once, and at the end of the file every #include
\* line of it has been taken once.
C8_UnityBuildDefinesNothingTwice ==
    /\ \A i, j \in 1..Len(included) : i # j => included[i] # included[j]
    /\ \A i \in 1..Len(included) :
          /\ included[i].name \notin FftSources
          /\ ~IsCodebookSource(included[i].name)
    /\ \A s \in TrackedSyms : defcount[s] <= 1
    /\ line > Len(AmalgamLines) =>
          Len(included) = Cardinality({i \in 1..Len(AmalgamLines) : AmalgamLines[i].kind = "include"})

\* C8's case: the whole file has been preprocessed and its thirteen
\* includes are in the translation unit, newamp1.c last.
C8_Witness ==
    /\ platform = "ios"
    /\ line = Len(AmalgamLines) + 1
    /\ Len(included) = 13
    /\ included[13].name = N_newamp1
    /\ macros = [m \in MacroNames |-> "0"]

====
